---------------------------- MODULE Spec2Model ----------------------------
(***************************************************************************)
(* F1 InsightX (src/dashboard.py): one Streamlit script.  Streamlit runs   *)
(* the script from its first line to its last on every user interaction;   *)
(* what survives from one run to the next is the memo of the two cached    *)
(* functions and the values the user left in the widgets.                  *)
(*                                                                         *)
(* The script is modelled section by section, pc naming the line the run   *)
(* is about to execute.  A run ends "done" (last line reached), "stopped"  *)
(* (st.stop()) or "aborted" (an exception left the script; raised names    *)
(* it).                                                                    *)
(*                                                                         *)
(*   Spec           a process from its start, run after run.  Every run    *)
(*                  ends at or before line 75, where the tyre selectbox    *)
(*                  raises, so its actions are those of lines 55-75.       *)
(*   SpecStages     the sections of lines 77-237, with the values the      *)
(*                  controls of lines 55-75 return as inputs.              *)
(*   SpecCache      load_fastf1_session behind st.cache_data over a        *)
(*                  sequence of session selections.                        *)
(*   SpecDownsample the telemetry decimation of lines 170-172.             *)
(***************************************************************************)
EXTENDS Integers, Sequences, FiniteSets, TLC

VARIABLES
    pc,             \* line the run executes next, or done/stopped/aborted
    interacted,     \* FALSE in the first run of the process (widgets at defaults)
    now,            \* datetime.now().year
    year,           \* value of the 'Season (Year)' selectbox
    racesMemo,      \* st.cache_resource memo of get_ergast_race_list
    races,          \* list returned by get_ergast_race_list(year)
    selected_race,  \* [some, round]: races[sel_idx] or None
    session_type,   \* value of the 'Session' selectbox
    driver,         \* text of the driver filter
    lap_filter,     \* value of the 'Lap filter' selectbox
    show_telemetry, \* 'Load detailed telemetry' checkbox
    telemetry_rate, \* 'Telemetry downsample' selectbox (0 is None)
    clicked,        \* the button whose click started this run
    selections,     \* session selections made so far (SpecCache)
    sessionMemo,    \* st.cache_data memo of load_fastf1_session
    fetches,        \* per key, how often fastf1.get_session(...).load() ran
    recorded,       \* the lap table the telemetry provider holds
    session_obj,    \* [ok, laps]: return value of load_fastf1_session
    laps,           \* the filtered lap table
    drivers,        \* [bound, val]: the name `drivers` of line 158
    tel,            \* the frames get_telemetry() returned in this run, in call order
    plotted,        \* [some, samples]: the frame handed to the plots
    best,           \* [some, lap]: best_lap of line 233
    raised,         \* exception that left the script, "none" if none
    shown           \* messages and sections written to the page

vars == <<pc, interacted, now, year, racesMemo, races, selected_race,
          session_type, driver, lap_filter, show_telemetry, telemetry_rate,
          clicked, selections, sessionMemo, fetches, recorded, session_obj, laps,
          drivers, tel, plotted, best, raised, shown>>

-----------------------------------------------------------------------------
(* Bounds *)

MaxYearSpan == 2     \* now ranges over FirstSeason .. FirstSeason + MaxYearSpan
MaxRaces == 2        \* races a season's catalog may list
MaxLaps == 2         \* laps a session may hold
MaxLapTime == 2      \* lap times are 1 .. MaxLapTime, or NaT
MaxSamples == 1      \* telemetry samples of a lap in SpecStages
MaxTelLen == 1040    \* telemetry samples of a lap in SpecDownsample
MaxSelections == 3   \* session selections in SpecCache

(* Program constants *)

FirstSeason == 2005
SessionIndex == 3
TyreIndex == 9
TelemetryRateIndex == 2

SessionOptions == <<"FP1", "FP2", "FP3", "Qualifying", "Sprint", "Race">>
LapFilterOptions == <<"All laps", "Fastest lap only", "Stint filter (by tyre)">>
TyreOptions == <<"Soft", "Medium", "Hard", "C3", "C4", "C5", "Intermediate", "Wet", "All">>
\* None is written 0: `if telemetry_rate:` treats both alike and 0 is no option.
TelemetryRateOptions == <<0, 1000, 500, 250, 100>>

YearOptions(n) == [i \in 1..(n + 1 - FirstSeason) |-> FirstSeason + i - 1]
YearIndex(n) == n - FirstSeason

-----------------------------------------------------------------------------
(* Streamlit's selectbox: a default index outside a non-empty option list  *)
(* raises StreamlitAPIException; Python indices are 0-based.               *)

SelectboxIndexOK(options, index) ==
    Len(options) > 0 => (0 <= index /\ index < Len(options))

Default(options, index) == options[index + 1]

Range(s) == {s[i] : i \in DOMAIN s}

-----------------------------------------------------------------------------
(* Text.  A str is a sequence of code points, so that strip(), the case-   *)
(* insensitive match of str.contains and sorted() are computed.            *)

Space == 32
HAM == <<72, 65, 77>>
VER == <<86, 69, 82>>
Drivers == {HAM, VER}

\* '', 'ha', ' VER ', 'X'
DriverTexts == {<<>>, <<104, 97>>, <<32, 86, 69, 82, 32>>, <<88>>}

Lower(c) == IF 65 <= c /\ c <= 90 THEN c + 32 ELSE c

RECURSIVE LStrip(_)
LStrip(s) == IF s # <<>> /\ Head(s) = Space THEN LStrip(Tail(s)) ELSE s

RECURSIVE RStrip(_)
RStrip(s) ==
    IF s # <<>> /\ s[Len(s)] = Space THEN RStrip(SubSeq(s, 1, Len(s) - 1)) ELSE s

Strip(s) == RStrip(LStrip(s))

\* Series.str.contains(pat, case=False) for a pattern of letters and digits.
Contains(s, pat) ==
    \E off \in 0..(Len(s) - Len(pat)) :
        \A i \in 1..Len(pat) : Lower(s[off + i]) = Lower(pat[i])

\* s < t in Python's ordering of str
RECURSIVE StrLess(_, _)
StrLess(s, t) ==
    IF t = <<>> THEN FALSE
    ELSE IF s = <<>> THEN TRUE
    ELSE IF Head(s) # Head(t) THEN Head(s) < Head(t)
    ELSE StrLess(Tail(s), Tail(t))

Sorted(S) == SortSeq(CHOOSE q \in [1..Cardinality(S) -> S] : Range(q) = S, StrLess)

-----------------------------------------------------------------------------
(* Values *)

Years == FirstSeason..(FirstSeason + MaxYearSpan)
Rounds == 1..MaxRaces
Keys == Years \X Rounds \X Range(SessionOptions)

NoRace == [some |-> FALSE, round |-> ""]
NoMemo == [some |-> FALSE, val |-> <<>>]
NoSession == [ok |-> FALSE, laps |-> <<>>]
Unbound == [bound |-> FALSE, val |-> <<>>]
NoTel == [some |-> FALSE, samples |-> <<>>]
NaT == -1
NullLap == [idx |-> -1, Driver |-> <<>>, LapNumber |-> 0, LapTime |-> NaT]
NoLap == [some |-> FALSE, lap |-> NullLap]

Ended == {"done", "stopped", "aborted"}

\* the names a run binds, before it has bound them
RunLocals == <<races, selected_race, session_type, driver, lap_filter,
               show_telemetry, telemetry_rate, session_obj, laps, drivers,
               tel, plotted, best>>

FreshLocals ==
    /\ races' = <<>>
    /\ selected_race' = NoRace
    /\ session_type' = ""
    /\ driver' = <<>>
    /\ lap_filter' = ""
    /\ show_telemetry' = FALSE
    /\ telemetry_rate' = 0
    /\ session_obj' = NoSession
    /\ laps' = <<>>
    /\ drivers' = Unbound
    /\ tel' = <<>>
    /\ plotted' = NoTel
    /\ best' = NoLap

Abort(exc) ==
    /\ pc' = "aborted"
    /\ raised' = exc

-----------------------------------------------------------------------------
(* Lines 17-25: get_ergast_race_list behind st.cache_resource.             *)

\* what the results API may answer: requests.get raising, or a status and a body
ErgastResponses ==
    [exc : {"ConnectionError", "Timeout"}, status : {0}, n : {0}]
    \cup [exc : {"none"}, status : {200, 429, 503}, n : 0..MaxRaces]

Catalog(n) == [i \in 1..n |-> ToString(i)]

\* the function body: [raised, value]
get_ergast_race_list(resp) ==
    IF resp.exc # "none" THEN [raised |-> resp.exc, value |-> <<>>]
    ELSE IF resp.status >= 400 THEN [raised |-> "HTTPError", value |-> <<>>]
    ELSE [raised |-> "none", value |-> Catalog(resp.n)]

\* lines 39-45; no line of the script calls it
fetch_race_metadata(resp) ==
    IF resp.exc # "none" THEN [raised |-> resp.exc, value |-> <<>>]
    ELSE IF resp.status >= 400 THEN [raised |-> "HTTPError", value |-> <<>>]
    ELSE [raised |-> "none", value |-> Catalog(resp.n)]

IntOf(round) == CHOOSE n \in Rounds : ToString(n) = round

-----------------------------------------------------------------------------
(* Lines 55-80: the sidebar controls.                                      *)

\* line 57
SeasonSelect ==
    /\ pc = "l57"
    /\ IF SelectboxIndexOK(YearOptions(now), YearIndex(now))
       THEN /\ \E y \in (IF interacted THEN Range(YearOptions(now))
                          ELSE {Default(YearOptions(now), YearIndex(now))}) :
                 year' = y
            /\ pc' = "l58"
            /\ UNCHANGED raised
       ELSE /\ Abort("StreamlitAPIException")
            /\ UNCHANGED year
    /\ UNCHANGED <<interacted, now, racesMemo, RunLocals, clicked, selections, sessionMemo,
                   fetches, recorded, shown>>

\* line 58: a memo hit returns the stored list; a raising call stores nothing
GetRaces ==
    /\ pc = "l58"
    /\ IF racesMemo[year].some
       THEN /\ races' = racesMemo[year].val
            /\ pc' = "l59"
            /\ UNCHANGED <<racesMemo, raised>>
       ELSE \E resp \in ErgastResponses :
              LET r == get_ergast_race_list(resp) IN
              IF r.raised = "none"
              THEN /\ racesMemo' = [racesMemo EXCEPT ![year] =
                                       [some |-> TRUE, val |-> r.value]]
                   /\ races' = r.value
                   /\ pc' = "l59"
                   /\ UNCHANGED raised
              ELSE /\ Abort(r.raised)
                   /\ UNCHANGED <<racesMemo, races>>
    /\ UNCHANGED <<interacted, now, year, selected_race, session_type, driver,
                   lap_filter, show_telemetry, telemetry_rate, clicked, selections,
                   sessionMemo, fetches, recorded, session_obj, laps, drivers,
                   tel, plotted, best, shown>>

\* lines 59-69
RaceSelect ==
    /\ pc = "l59"
    /\ IF races # <<>>
       THEN /\ \E sel_idx \in (IF interacted THEN 0..(Len(races) - 1) ELSE {0}) :
                 selected_race' = [some |-> TRUE, round |-> races[sel_idx + 1]]
            /\ UNCHANGED shown
       ELSE /\ selected_race' = NoRace
            /\ shown' = shown \cup {"No races found for this season via Ergast API"}
    /\ pc' = "l70"
    /\ UNCHANGED <<interacted, now, year, racesMemo, races, session_type, driver,
                   lap_filter, show_telemetry, telemetry_rate, clicked, selections,
                   sessionMemo, fetches, recorded, session_obj, laps, drivers,
                   tel, plotted, best, raised>>

\* line 70
SessionSelect ==
    /\ pc = "l70"
    /\ IF SelectboxIndexOK(SessionOptions, SessionIndex)
       THEN /\ \E s \in (IF interacted THEN Range(SessionOptions)
                          ELSE {Default(SessionOptions, SessionIndex)}) :
                 session_type' = s
            /\ pc' = "l72"
            /\ UNCHANGED raised
       ELSE /\ Abort("StreamlitAPIException")
            /\ UNCHANGED session_type
    /\ UNCHANGED <<interacted, now, year, racesMemo, races, selected_race, driver,
                   lap_filter, show_telemetry, telemetry_rate, clicked, selections,
                   sessionMemo, fetches, recorded, session_obj, laps, drivers,
                   tel, plotted, best, shown>>

\* lines 72-75: the text input and the lap filter are bound before the tyre
\* selectbox is built
LapControls ==
    /\ pc = "l72"
    /\ \E d \in (IF interacted THEN DriverTexts ELSE {<<>>}) : driver' = d
    /\ \E f \in (IF interacted THEN Range(LapFilterOptions)
                  ELSE {Default(LapFilterOptions, 0)}) : lap_filter' = f
    /\ IF SelectboxIndexOK(TyreOptions, TyreIndex)
       THEN pc' = "l77" /\ UNCHANGED raised
       ELSE Abort("StreamlitAPIException")
    /\ UNCHANGED <<interacted, now, year, racesMemo, races, selected_race,
                   session_type, show_telemetry, telemetry_rate, clicked, selections,
                   sessionMemo, fetches, recorded, session_obj, laps, drivers,
                   tel, plotted, best, shown>>

\* a widget interaction after a run has ended starts the script again
Rerun ==
    /\ pc \in Ended
    /\ pc' = "l57"
    /\ interacted' = TRUE
    /\ FreshLocals
    /\ raised' = "none"
    /\ shown' = {}
    /\ UNCHANGED <<now, year, racesMemo, clicked, selections, sessionMemo, fetches,
                   recorded>>

Init ==
    /\ pc = "l57"
    /\ interacted = FALSE
    /\ now \in Years
    /\ year = FirstSeason
    /\ racesMemo = [y \in Years |-> NoMemo]
    /\ races = <<>>
    /\ selected_race = NoRace
    /\ session_type = ""
    /\ driver = <<>>
    /\ lap_filter = ""
    /\ show_telemetry = FALSE
    /\ telemetry_rate = 0
    /\ clicked = "none"
    /\ selections = 0
    /\ sessionMemo = [k \in Keys |-> [some |-> FALSE, val |-> NoSession]]
    /\ fetches = [k \in Keys |-> 0]
    /\ recorded = <<>>
    /\ session_obj = NoSession
    /\ laps = <<>>
    /\ drivers = Unbound
    /\ tel = <<>>
    /\ plotted = NoTel
    /\ best = NoLap
    /\ raised = "none"
    /\ shown = {}

Next ==
    \/ SeasonSelect
    \/ GetRaces
    \/ RaceSelect
    \/ SessionSelect
    \/ LapControls
    \/ Rerun

Spec == Init /\ [][Next]_vars

-----------------------------------------------------------------------------
(* The lap table of a session (session_obj.laps): a DataFrame with a       *)
(* RangeIndex, in recording order.  A row is [idx, Driver, LapNumber,      *)
(* LapTime]; LapTime is NaT for a lap without a time.                      *)

RawLaps == Drivers \X ({NaT} \cup 1..MaxLapTime)
RawTables == UNION {[1..n -> RawLaps] : n \in 0..MaxLaps}

MkTable(raw) ==
    [i \in 1..Len(raw) |->
        [idx |-> i - 1,
         Driver |-> raw[i][1],
         LapNumber |-> Cardinality({j \in 1..i : raw[j][1] = raw[i][1]}),
         LapTime |-> raw[i][2]]]

RecordedTables == {MkTable(raw) : raw \in RawTables}

\* laps[laps['Driver'].str.contains(text, case=False, na=False)]
FilterByDriver(tbl, text) ==
    LET Keep(l) == Contains(l.Driver, text) IN SelectSeq(tbl, Keep)

\* lines 119-121
FilteredLaps(tbl, text) ==
    IF Strip(text) # <<>> THEN FilterByDriver(tbl, Strip(text)) ELSE tbl

\* sorted(laps['Driver'].unique())
DriverList(tbl) == Sorted({tbl[i].Driver : i \in DOMAIN tbl})

Timed(tbl) == {i \in DOMAIN tbl : tbl[i].LapTime # NaT}

\* Series.idxmin(): NaT is skipped, the first position of the minimum wins, and
\* the answer is that row's index label
IdxMinLast(tbl) ==
    LET m == CHOOSE i \in Timed(tbl) :
                 \A j \in Timed(tbl) :
                     \/ tbl[i].LapTime < tbl[j].LapTime
                     \/ tbl[i].LapTime = tbl[j].LapTime /\ i >= j
    IN  tbl[m].idx

IdxMin(tbl) ==
    LET m == CHOOSE i \in Timed(tbl) :
                 \A j \in Timed(tbl) :
                     \/ tbl[i].LapTime < tbl[j].LapTime
                     \/ tbl[i].LapTime = tbl[j].LapTime /\ i <= j
    IN  tbl[m].idx

\* laps.loc[label]
Loc(tbl, label) == tbl[CHOOSE i \in DOMAIN tbl : tbl[i].idx = label]

\* Laps.pick_driver(code): None matches no row
PickDriver(tbl, code) ==
    LET Keep(l) == code.some /\ l.Driver = code.val IN SelectSeq(tbl, Keep)

\* Laps.pick_fastest(): the lap of minimum LapTime (every timed lap counted
\* as a personal best); without a timed lap FastF1 hands back None (3.1 and
\* later) or a Lap without values (before)
PickFastest(tbl) ==
    IF Timed(tbl) # {}
    THEN {[kind |-> "lap", lap |-> Loc(tbl, IdxMin(tbl))]}
    ELSE {[kind |-> "None", lap |-> NullLap], [kind |-> "empty", lap |-> NullLap]}

\* what a selectbox without index= returns: the user's pick, None when it
\* has no options
Picks(options) ==
    IF options = <<>> THEN {[some |-> FALSE, val |-> <<>>]}
    ELSE {[some |-> TRUE, val |-> options[i]] : i \in DOMAIN options}

\* telemetry of a lap: None, an empty frame, or samples 0 .. n-1
Frame(n) == [some |-> TRUE, samples |-> [i \in 1..n |-> i - 1]]
TelemetryFrames == {NoTel} \cup {Frame(n) : n \in 0..MaxSamples}

-----------------------------------------------------------------------------
(* Lines 170-172: tel.iloc[::max(1, int(len(tel)/telemetry_rate))]         *)

Max(a, b) == IF a >= b THEN a ELSE b

StrideRoundedUp(n, rate) == Max(1, (n + rate - 1) \div rate)

Stride(n, rate) == Max(1, n \div rate)

\* s[::k]: the rows at positions 0, k, 2k, ...
Every(s, k) ==
    LET kept == {i \in DOMAIN s : (i - 1) % k = 0}
    IN  [j \in 1..Cardinality(kept) |-> s[(j - 1) * k + 1]]

Downsample(samples, rate) ==
    IF rate # 0 THEN Every(samples, Stride(Len(samples), rate)) ELSE samples

-----------------------------------------------------------------------------
(* Lines 27-37 and 90-95: load_fastf1_session behind st.cache_data.        *)

ProviderOutcomes == {"ok", "ConnectionError", "SessionNotAvailable"}

\* the function body: any exception of the fetch becomes None
load_fastf1_session(outcome, table) ==
    IF outcome = "ok" THEN [ok |-> TRUE, laps |-> table] ELSE NoSession

\* st.cache_data keeps whatever the call returned, None included
CacheStoreUnlessNone(memo, key, val) ==
    IF val.ok THEN [memo EXCEPT ![key] = [some |-> TRUE, val |-> val]] ELSE memo

CacheStore(memo, key, val) == [memo EXCEPT ![key] = [some |-> TRUE, val |-> val]]

SessionKey == <<year, IntOf(selected_race.round), session_type>>

SessionSel == <<year, races, selected_race, session_type>>
Widgets == <<driver, lap_filter, show_telemetry, telemetry_rate>>
Memo == <<sessionMemo, fetches>>
Env == <<interacted, now, racesMemo, recorded, selections>>

\* lines 77-80
AdvancedControls ==
    /\ pc = "l77"
    /\ \E b \in BOOLEAN : show_telemetry' = b
    /\ IF SelectboxIndexOK(TelemetryRateOptions, TelemetryRateIndex)
       THEN /\ \E r \in Range(TelemetryRateOptions) : telemetry_rate' = r
            /\ pc' = "l86"
            /\ UNCHANGED raised
       ELSE /\ Abort("StreamlitAPIException")
            /\ UNCHANGED telemetry_rate
    /\ UNCHANGED <<Env, SessionSel, driver, lap_filter, clicked, Memo,
                   session_obj, laps, drivers, tel, plotted, best, shown>>

\* lines 86-87
Gate ==
    /\ pc = "l86"
    /\ pc' = IF selected_race.some THEN "l90" ELSE "stopped"
    /\ UNCHANGED <<Env, SessionSel, Widgets, clicked, Memo, session_obj, laps,
                   drivers, tel, plotted, best, raised, shown>>

\* lines 90-95: a memo hit returns the stored value and replays its st.error
LoadSession ==
    /\ pc = "l90"
    /\ IF sessionMemo[SessionKey].some
       THEN /\ session_obj' = sessionMemo[SessionKey].val
            /\ UNCHANGED Memo
       ELSE \E outcome \in ProviderOutcomes :
              /\ fetches' = [fetches EXCEPT ![SessionKey] = @ + 1]
              /\ session_obj' = load_fastf1_session(outcome, recorded)
              /\ sessionMemo' = CacheStore(sessionMemo, SessionKey, session_obj')
    /\ IF session_obj'.ok
       THEN /\ pc' = "l97"
            /\ UNCHANGED shown
       ELSE /\ pc' = "stopped"
            /\ shown' = shown \cup {"Error loading FastF1 session",
                                    "Session could not be loaded."}
    /\ UNCHANGED <<Env, SessionSel, Widgets, clicked, laps, drivers, tel,
                   plotted, best, raised>>

\* lines 97-138: header, filter, lap table
LapTimes ==
    /\ pc = "l97"
    /\ laps' = FilteredLaps(session_obj.laps, driver)
    /\ shown' = shown \cup {"Lap Times & Summary"} \cup
                (IF laps' = <<>> THEN {"No laps found for your selection."}
                 ELSE {"Lap time distribution"})
    /\ pc' = "l141"
    /\ UNCHANGED <<Env, SessionSel, Widgets, clicked, Memo, session_obj,
                   drivers, tel, plotted, best, raised>>

\* lines 140-152
TyreStrategy ==
    /\ pc = "l141"
    /\ shown' = shown \cup {"Tyre & Strategy"}
    /\ pc' = "l155"
    /\ UNCHANGED <<Env, SessionSel, Widgets, clicked, Memo, session_obj, laps,
                   drivers, tel, plotted, best, raised>>

\* lines 154-191.  tel is None when the lap has no get_telemetry; a Lap
\* without values has no car to read telemetry of.
TelemetryExplorer ==
    /\ pc = "l155"
    /\ IF ~show_telemetry
       THEN /\ pc' = "l194"
            /\ shown' = shown \cup {"Telemetry Explorer"}
            /\ UNCHANGED <<drivers, clicked, tel, plotted, raised>>
       ELSE /\ drivers' = [bound |-> TRUE, val |-> DriverList(laps)]
            /\ \E lap_driver \in Picks(drivers'.val) :
               \E fastest \in PickFastest(PickDriver(session_obj.laps, lap_driver)) :
               \E press \in BOOLEAN :
                 IF fastest.kind = "None"
                 THEN /\ Abort("TypeError")
                      /\ UNCHANGED <<clicked, tel, plotted>>
                 ELSE IF ~press
                 THEN /\ pc' = "l194"
                      /\ UNCHANGED <<clicked, tel, plotted, raised>>
                 ELSE IF fastest.kind = "empty"
                 THEN /\ Abort("KeyError")
                      /\ clicked' = "plot"
                      /\ UNCHANGED <<tel, plotted>>
                 ELSE \E frame \in TelemetryFrames :
                      /\ clicked' = "plot"
                      /\ tel' = <<frame>>
                      /\ pc' = "l194"
                      /\ UNCHANGED raised
                      /\ IF ~frame.some \/ frame.samples = <<>>
                         THEN UNCHANGED plotted
                         ELSE plotted' = [some |-> TRUE, samples |->
                                    Downsample(frame.samples, telemetry_rate)]
            /\ shown' = shown \cup {"Telemetry Explorer"} \cup
                        (IF clicked' # "plot" \/ pc' = "aborted" THEN {}
                         ELSE IF plotted'.some THEN {"Speed and throttle plot"}
                         ELSE {"Telemetry not available for that lap"})
    /\ UNCHANGED <<Env, SessionSel, Widgets, Memo, session_obj, laps, best>>

\* lines 193-205
Weather ==
    /\ pc = "l194"
    /\ shown' = shown \cup {"Weather & Session Overview"}
    /\ pc' = "l208"
    /\ UNCHANGED <<Env, SessionSel, Widgets, clicked, Memo, session_obj, laps,
                   drivers, tel, plotted, best, raised>>

\* what l.get_telemetry().add_suffix(...) of lines 215-216 raises: None has
\* no get_telemetry, a Lap without values no car, None no add_suffix
CompareRaises(l, frame) ==
    IF l.kind = "None" THEN "AttributeError"
    ELSE IF l.kind = "empty" THEN "KeyError"
    ELSE IF ~frame.some THEN "AttributeError"
    ELSE "none"

\* lines 207-227.  One click starts one run, so Compare is not pressed in a
\* run that 'Show telemetry plot' started.
HeadToHead ==
    /\ pc = "l208"
    /\ IF ~drivers.bound
       THEN /\ Abort("NameError")
            /\ shown' = shown \cup {"Head-to-head Lap Comparison"}
            /\ UNCHANGED <<clicked, tel>>
       ELSE IF ~ ( /\ SelectboxIndexOK(drivers.val, 0)
                   /\ SelectboxIndexOK(drivers.val,
                          IF Len(drivers.val) - 1 < 1 THEN Len(drivers.val) - 1 ELSE 1) )
       THEN /\ Abort("StreamlitAPIException")
            /\ shown' = shown \cup {"Head-to-head Lap Comparison"}
            /\ UNCHANGED <<clicked, tel>>
       ELSE \E press \in (IF clicked = "none" THEN BOOLEAN ELSE {FALSE}) :
              IF ~press
              THEN /\ pc' = "l230"
                   /\ shown' = shown \cup {"Head-to-head Lap Comparison"}
                   /\ UNCHANGED <<clicked, tel, raised>>
              ELSE \E d1 \in Picks(drivers.val) : \E d2 \in Picks(drivers.val) :
                   \E l1 \in PickFastest(PickDriver(session_obj.laps, d1)) :
                   \E l2 \in PickFastest(PickDriver(session_obj.laps, d2)) :
                   \E t1 \in TelemetryFrames : \E t2 \in TelemetryFrames :
                   /\ clicked' = "compare"
                   /\ shown' = shown \cup {"Head-to-head Lap Comparison"} \cup
                        (IF CompareRaises(l1, t1) = "none" /\ CompareRaises(l2, t2) = "none"
                         THEN {"Speed overlay"} ELSE {})
                   /\ IF CompareRaises(l1, t1) # "none"
                      THEN /\ Abort(CompareRaises(l1, t1))
                           /\ tel' = IF l1.kind = "lap" THEN <<t1>> ELSE <<>>
                      ELSE IF CompareRaises(l2, t2) # "none"
                      THEN /\ Abort(CompareRaises(l2, t2))
                           /\ tel' = IF l2.kind = "lap" THEN <<t1, t2>> ELSE <<t1>>
                      ELSE /\ pc' = "l230"
                           /\ tel' = <<t1, t2>>
                           /\ UNCHANGED raised
    /\ UNCHANGED <<Env, SessionSel, Widgets, Memo, session_obj, laps, drivers,
                   plotted, best>>

\* lines 229-237: with no timed lap idxmin gives NaN (pandas 1, 2), which
\* laps.loc rejects with KeyError, or raises ValueError itself (pandas 3)
QuickAnalytics ==
    /\ pc = "l230"
    /\ IF laps = <<>>
       THEN /\ pc' = "done"
            /\ shown' = shown \cup {"Quick analytics"}
            /\ UNCHANGED <<best, raised>>
       ELSE IF Timed(laps) = {}
       THEN /\ \E exc \in {"KeyError", "ValueError"} : Abort(exc)
            /\ shown' = shown \cup {"Quick analytics"}
            /\ UNCHANGED best
       ELSE /\ best' = [some |-> TRUE, lap |-> Loc(laps, IdxMin(laps))]
            /\ shown' = shown \cup {"Quick analytics", "Fastest lap (selected filters)",
                                    "Top 5 drivers by best lap"}
            /\ pc' = "done"
            /\ UNCHANGED raised
    /\ UNCHANGED <<Env, SessionSel, Widgets, clicked, Memo, session_obj, laps,
                   drivers, tel, plotted>>

\* The sections of lines 77-237 in the run that follows a widget
\* interaction: the session selectors at the current season, its first
\* race and the default session kind; the driver text and the lap filter
\* as the user left them.
InitStages ==
    /\ pc = "l77"
    /\ interacted = TRUE
    /\ now = FirstSeason + MaxYearSpan
    /\ year = now
    /\ racesMemo = [y \in Years |-> NoMemo]
    /\ races \in {Catalog(0), Catalog(MaxRaces)}
    /\ selected_race = IF races = <<>> THEN NoRace
                       ELSE [some |-> TRUE, round |-> races[1]]
    /\ session_type = Default(SessionOptions, SessionIndex)
    /\ driver \in DriverTexts
    /\ lap_filter \in Range(LapFilterOptions)
    /\ show_telemetry = FALSE
    /\ telemetry_rate = 0
    /\ clicked = "none"
    /\ selections = 0
    /\ sessionMemo = [k \in Keys |-> [some |-> FALSE, val |-> NoSession]]
    /\ fetches = [k \in Keys |-> 0]
    /\ recorded \in RecordedTables
    /\ session_obj = NoSession
    /\ laps = <<>>
    /\ drivers = Unbound
    /\ tel = <<>>
    /\ plotted = NoTel
    /\ best = NoLap
    /\ raised = "none"
    /\ shown = {}

NextStages ==
    \/ AdvancedControls
    \/ Gate
    \/ LoadSession
    \/ LapTimes
    \/ TyreStrategy
    \/ TelemetryExplorer
    \/ Weather
    \/ HeadToHead
    \/ QuickAnalytics

SpecStages == InitStages /\ [][NextStages]_vars

-----------------------------------------------------------------------------
(* load_fastf1_session over a sequence of session selections.  A selection *)
(* starts a run that reaches line 90 with the selectors' new values; the   *)
(* sections after line 95 leave the memo alone.                            *)

SelectSession ==
    /\ pc \in {"l97", "stopped"}
    /\ selections < MaxSelections
    /\ selections' = selections + 1
    /\ \E sel_idx \in 0..(Len(races) - 1) :
         selected_race' = [some |-> TRUE, round |-> races[sel_idx + 1]]
    /\ \E s \in Range(SessionOptions) : session_type' = s
    /\ session_obj' = NoSession
    /\ shown' = {}
    /\ pc' = "l90"
    /\ UNCHANGED <<interacted, now, year, racesMemo, races, recorded, Widgets,
                   clicked, Memo, laps, drivers, tel, plotted, best, raised>>

InitCache ==
    /\ pc = "l90"
    /\ interacted = TRUE
    /\ now = FirstSeason + MaxYearSpan
    /\ year = now
    /\ racesMemo = [y \in Years |-> NoMemo]
    /\ races = Catalog(MaxRaces)
    /\ selected_race = [some |-> TRUE, round |-> races[1]]
    /\ session_type = Default(SessionOptions, SessionIndex)
    /\ driver = <<>>
    /\ lap_filter = Default(LapFilterOptions, 0)
    /\ show_telemetry = TRUE
    /\ telemetry_rate = Default(TelemetryRateOptions, TelemetryRateIndex)
    /\ clicked = "none"
    /\ selections = 0
    /\ sessionMemo = [k \in Keys |-> [some |-> FALSE, val |-> NoSession]]
    /\ fetches = [k \in Keys |-> 0]
    /\ recorded \in {MkTable(<<>>), MkTable(<< <<HAM, 1>> >>)}
    /\ session_obj = NoSession
    /\ laps = <<>>
    /\ drivers = Unbound
    /\ tel = <<>>
    /\ plotted = NoTel
    /\ best = NoLap
    /\ raised = "none"
    /\ shown = {}

NextCache ==
    \/ LoadSession
    \/ SelectSession

SpecCache == InitCache /\ [][NextCache]_vars

-----------------------------------------------------------------------------
(* The decimation of lines 170-172 on a frame that passed line 167.        *)

Decimate ==
    /\ pc = "l171"
    /\ plotted' = [some |-> TRUE, samples |->
                      Downsample(tel[1].samples, telemetry_rate)]
    /\ pc' = "l173"
    /\ UNCHANGED <<Env, SessionSel, Widgets, clicked, Memo, session_obj, laps,
                   drivers, tel, best, raised, shown>>

InitDownsample ==
    /\ pc = "l171"
    /\ interacted = TRUE
    /\ now = FirstSeason + MaxYearSpan
    /\ year = now
    /\ racesMemo = [y \in Years |-> NoMemo]
    /\ races = Catalog(MaxRaces)
    /\ selected_race = [some |-> TRUE, round |-> races[1]]
    /\ session_type = Default(SessionOptions, SessionIndex)
    /\ driver = <<>>
    /\ lap_filter = Default(LapFilterOptions, 0)
    /\ show_telemetry = TRUE
    /\ telemetry_rate \in Range(TelemetryRateOptions)
    /\ clicked = "plot"
    /\ selections = 0
    /\ sessionMemo = [k \in Keys |-> [some |-> FALSE, val |-> NoSession]]
    /\ fetches = [k \in Keys |-> 0]
    /\ recorded = MkTable(<< <<HAM, 1>> >>)
    /\ session_obj = [ok |-> TRUE, laps |-> recorded]
    /\ laps = recorded
    /\ drivers = [bound |-> TRUE, val |-> DriverList(laps)]
    /\ \E n \in 1..MaxTelLen : tel = <<Frame(n)>>
    /\ plotted = NoTel
    /\ best = NoLap
    /\ raised = "none"
    /\ shown = {"Lap Times & Summary", "Lap time distribution", "Tyre & Strategy"}

NextDownsample == Decimate

SpecDownsample == InitDownsample /\ [][NextDownsample]_vars

-----------------------------------------------------------------------------
(* Properties *)

IOFailures == {"ConnectionError", "Timeout", "HTTPError", "SessionNotAvailable"}
Missing(frame) == ~frame.some \/ frame.samples = <<>>
AfterFilter == pc \in {"l141", "l155", "l194", "l208", "l230", "done", "aborted"}

\* C1: no failure of an external call (the results catalog request, the
\* session fetch) leaves a run as an unhandled exception.
C1_IOFailuresAreCaught == raised \notin IOFailures

\* C2: once the filter has left no lap, the run has shown 'No laps found for
\* your selection.' and no later section raises, whatever the telemetry toggle.
C2_EmptyLapsAreTolerated ==
    (AfterFilter /\ laps = <<>>) =>
        /\ "No laps found for your selection." \in shown
        /\ raised = "none"

\* C3: of a non-empty filtered lap table with a timed lap, quick analytics
\* reports the lap of minimum LapTime among the timed laps, and of several
\* such laps the one that comes first in the table.
C3_FastestLapIsFirstMinimum ==
    (pc = "done" /\ laps # <<>> /\ Timed(laps) # {}) =>
        /\ best.some
        /\ \E i \in Timed(laps) :
             /\ laps[i] = best.lap
             /\ \A j \in Timed(laps) :
                  /\ laps[i].LapTime <= laps[j].LapTime
                  /\ laps[j].LapTime = laps[i].LapTime => i <= j

C3_Witness ==
    /\ pc = "done"
    /\ best.some
    /\ \E i, j \in Timed(laps) :
         /\ i < j
         /\ laps[i] = best.lap
         /\ laps[j].LapTime = best.lap.LapTime

\* C4: of a non-empty filtered lap table without a timed lap, quick
\* analytics reports an undefined fastest lap: it neither raises nor picks
\* a lap.
C4_AllNullIsUndefined ==
    ("Quick analytics" \in shown /\ laps # <<>> /\ Timed(laps) = {}) =>
        /\ raised = "none"
        /\ ~best.some

\* C5: with the lap filter on 'Fastest lap only', the lap table the later
\* sections use holds, for each driver, exactly that driver's lap of minimum
\* non-null LapTime, and no lap of a driver without a timed lap.
C5_FastestLapOnlyKeepsOnePerDriver ==
    (AfterFilter /\ lap_filter = "Fastest lap only") =>
        \A d \in Drivers :
            LET input == PickDriver(FilteredLaps(session_obj.laps, driver),
                                    [some |-> TRUE, val |-> d])
                kept == PickDriver(laps, [some |-> TRUE, val |-> d])
            IN  IF Timed(input) = {} THEN kept = <<>>
                ELSE kept = <<Loc(input, IdxMin(input))>>

\* C6: with a target n the decimation keeps exactly the samples at indices
\* 0, stride, 2*stride, ... for stride = max(1, floor(len/n)), that is
\* ceil(len/stride) samples; with no target it keeps the frame as it is.
C6_DownsampleKeepsEveryStride ==
    pc = "l173" =>
        LET len == Len(tel[1].samples)
            n == telemetry_rate
            m == Len(plotted.samples)
            q == len \div (IF n = 0 THEN 1 ELSE n)
            stride == IF q < 1 THEN 1 ELSE q
        IN  IF n = 0 THEN plotted.samples = tel[1].samples
            ELSE /\ \A j \in 1..m : plotted.samples[j] = (j - 1) * stride
                 /\ (m - 1) * stride < len
                 /\ len <= m * stride

C6_Witness ==
    /\ pc = "l173"
    /\ telemetry_rate # 0
    /\ telemetry_rate < Len(tel[1].samples)
    /\ Len(plotted.samples) < Len(tel[1].samples)
    /\ Len(tel[1].samples) < 2 * Len(plotted.samples)

\* C7: over any sequence of session selections the provider is contacted at
\* most once for each (season, round, session kind).
C7_AtMostOneFetchPerSession == \A k \in Keys : fetches[k] <= 1

C7_Witness ==
    /\ pc \in {"l97", "stopped"}
    /\ selections = 2
    /\ Cardinality({k \in Keys : fetches[k] = 1}) = 2
    /\ ~session_obj.ok

\* C8: a run in which get_telemetry() returned no frame or an empty one, for
\* 'Show telemetry plot' or for 'Compare', has shown the warning and has not
\* raised.
C8_MissingTelemetryIsWarned ==
    (\E i \in DOMAIN tel : Missing(tel[i])) =>
        /\ "Telemetry not available for that lap" \in shown
        /\ raised = "none"

\* C9: whenever a run is at the head-to-head section, the name drivers is
\* bound, for both values of the telemetry toggle.
C9_DriversBoundAtHeadToHead == pc = "l208" => drivers.bound

\* C10: every selectbox of the sidebar is built with a default index inside
\* its option list, so no run ends in the exception a bad index raises.
C10_SelectorDefaultsAreValid ==
    ~(pc = "aborted" /\ raised = "StreamlitAPIException")

=============================================================================
